---- MODULE Spec2Model ----
(***************************************************************************)
(* Model of src/t.py: the Function class hierarchy over SymPy.             *)
(*                                                                         *)
(* A Function object has a class and the three fields set by __init__      *)
(* (expr_str, expr, vars).  The algebra engine (SymPy) is external: its    *)
(* parser and its structural queries (free_symbols, as_poly,               *)
(* as_numer_denom) are tabulated for the expressions of the demo at the    *)
(* bottom of t.py, and its solvers (diff, integrate, continuous_domain,    *)
(* function_range, the arithmetic of expressions, simplify) are oracles:   *)
(* an action draws the engine's answer from a small set with \E.           *)
(***************************************************************************)
EXTENDS Integers, Sequences, FiniteSets, TLC

VARIABLES heap, ret

vars == <<heap, ret>>

\* ------------------------------------------------------------------ bounds
MaxObjs == 3

\* ------------------------------------------------------- values of Python
None == [k |-> "none"]
Str(s) == [k |-> "str", name |-> s]
Sym(s) == [k |-> "sym", name |-> s]

Classes ==
  {"Function", "PolynomialFunction", "TrigFunction", "RationalFunction",
   "ExponentialFunction", "LogFunction", "AbsoluteFunction"}

\* ------------------------------------------------------- the engine: text
\* str.replace("^", "**") on the texts the model constructs Functions from.
Replace(text) ==
  CASE text = "x^2 + 1" -> "x**2 + 1"
    [] text = "x^3 - 4x + 1" -> "x**3 - 4x + 1"
    [] text = "(x^2 + 1)/(x - 2)" -> "(x**2 + 1)/(x - 2)"
    [] text = "(x + 1)/(x^2 + 1)" -> "(x + 1)/(x**2 + 1)"
    [] OTHER -> text

Tree(s) == [k |-> "tree", tree |-> s]

\* parse_expr with implicit multiplication: the tree is named by its
\* canonical rendering.
parse_expr(text) ==
  CASE text = "x - 2w + 3z" -> Tree("-2*w + x + 3*z")
    [] text = "x**3 - 4x + 1" -> Tree("x**3 - 4*x + 1")
    [] text = "(2x + 1)/(x + 3)" -> Tree("(2*x + 1)/(x + 3)")
    [] OTHER -> Tree(text)

\* str(expr)
StrOf(t) == t.tree

\* str.split() of a text
Split(text) ==
  CASE text = "x - 2w + 3z" -> <<"x", "-", "2w", "+", "3z">>
    [] text = "-2*w + x + 3*z" -> <<"-2*w", "+", "x", "+", "3*z">>
    [] text = "x**2 + 1" -> <<"x**2", "+", "1">>
    [] text = "x**3 - 4x + 1" -> <<"x**3", "-", "4x", "+", "1">>
    [] text = "x**3 - 4*x + 1" -> <<"x**3", "-", "4*x", "+", "1">>
    [] text = "sin(x) + cos(x)" -> <<"sin(x)", "+", "cos(x)">>
    [] text = "(x**2 + 1)/(x - 2)" -> <<"(x**2", "+", "1)/(x", "-", "2)">>
    [] text = "(2x + 1)/(x + 3)" -> <<"(2x", "+", "1)/(x", "+", "3)">>
    [] text = "(2*x + 1)/(x + 3)" -> <<"(2*x", "+", "1)/(x", "+", "3)">>
    [] text = "(x + 1)/(x**2 + 1)" -> <<"(x", "+", "1)/(x**2", "+", "1)">>
    [] text = "Abs(x - 1)" -> <<"Abs(x", "-", "1)">>
    [] OTHER -> <<text>>

\* -------------------------------------------------- the engine: structure
\* expr.free_symbols, as the set of the symbols' names
free_symbols(t) ==
  CASE t.tree \in {"0", "1", "2"} -> {}
    [] t.tree = "-2*w + x + 3*z" -> {"w", "x", "z"}
    [] OTHER -> {"x"}

NameRank(n) == CASE n = "w" -> 1 [] n = "x" -> 2 [] n = "z" -> 3

RECURSIVE SortedNames(_)
\* sorted(free_symbols, key=lambda s: s.name)
SortedNames(S) ==
  IF S = {} THEN <<>>
  ELSE LET m == CHOOSE n \in S : \A o \in S : NameRank(n) <= NameRank(o)
       IN <<Sym(m)>> \o SortedNames(S \ {m})

Null == [k |-> "null"]
Poly(d, lc) == [k |-> "poly", deg |-> d, LC |-> lc]

\* expr.as_poly() with no generators given: None for a constant
\* (GeneratorsNeeded is caught inside as_poly), None for an expression the
\* engine cannot write as a polynomial, else the polynomial in the
\* generators the engine finds.
as_poly(t) ==
  CASE t.tree \in {"0", "1", "2"} -> Null
    [] t.tree = "nonpoly(x)" -> Null
    [] t.tree = "x" -> Poly(1, 1)
    [] t.tree = "2*x" -> Poly(1, 2)
    [] t.tree = "x + 1" -> Poly(1, 1)
    [] t.tree = "x - 2" -> Poly(1, 1)
    [] t.tree = "x + 3" -> Poly(1, 1)
    [] t.tree = "2*x + 1" -> Poly(1, 2)
    [] t.tree = "x**2 + 1" -> Poly(2, 1)
    [] t.tree = "x**3 - 4*x + 1" -> Poly(3, 1)
    [] t.tree = "-2*w + x + 3*z" -> Poly(1, -2)
    [] t.tree = "1/x" -> Poly(1, 1)

\* expr.as_numer_denom()
as_numer_denom(t) ==
  CASE t.tree = "(x**2 + 1)/(x - 2)" -> <<Tree("x**2 + 1"), Tree("x - 2")>>
    [] t.tree = "1/x" -> <<Tree("1"), Tree("x")>>
    [] t.tree = "(2*x + 1)/(x + 3)" -> <<Tree("2*x + 1"), Tree("x + 3")>>
    [] t.tree = "(x + 1)/(x**2 + 1)" -> <<Tree("x + 1"), Tree("x**2 + 1")>>
    [] OTHER -> <<t, Tree("1")>>

\* --------------------------------------------------- the engine: oracles
\* What diff, integrate, simplify, rewrite and the arithmetic of
\* expressions may return.
EngineTrees == {Tree("2*x"), Tree("0"), Tree("1/x")}

\* What continuous_domain may return.
EngineDomains == {[k |-> "set", name |-> "Reals"], [k |-> "set", name |-> "Interval.open(0, oo)"]}

\* What function_range may return, or that it raises.
EngineRanges ==
  {[k |-> "set", name |-> "Reals"], [k |-> "set", name |-> "Interval(0, oo)"],
   [k |-> "set", name |-> "Interval(1, 2)"]}
Raises == [k |-> "raises"]

\* ------------------------------------------------------------ the objects
\* Function.__init__
NewFunction(cls, text) ==
  LET s == Replace(text)
      e == parse_expr(s)
  IN [cls |-> cls, expr_str |-> s, expr |-> e,
      vars |-> SortedNames(free_symbols(e))]

\* The (class, text) pairs of the demo, and a few more of the same kind.
\* "nonpoly(x)" stands for a text in x alone whose tree as_poly() answers
\* None for, the case PolynomialFunction.degree tests with `poly is None`.
Literals ==
  { <<"Function", "x - 2w + 3z">>,
    <<"Function", "x^2 + 1">>,
    <<"Function", "2">>,
    <<"PolynomialFunction", "x^3 - 4x + 1">>,
    <<"PolynomialFunction", "x - 2w + 3z">>,
    <<"PolynomialFunction", "nonpoly(x)">>,
    <<"PolynomialFunction", "2">>,
    <<"TrigFunction", "sin(x) + cos(x)">>,
    <<"RationalFunction", "(x^2 + 1)/(x - 2)">>,
    <<"RationalFunction", "1/x">>,
    <<"RationalFunction", "(2x + 1)/(x + 3)">>,
    <<"RationalFunction", "(x + 1)/(x^2 + 1)">>,
    <<"ExponentialFunction", "exp(x)">>,
    <<"LogFunction", "log(x)">>,
    <<"AbsoluteFunction", "Abs(x - 1)">>,
    <<"AbsoluteFunction", "x^2 + 1">> }

\* The right operands of the demo's arithmetic.
RightOperands ==
  { <<"Function", "x - 2w + 3z">>,
    <<"PolynomialFunction", "x^3 - 4x + 1">>,
    <<"RationalFunction", "1/x">> }

\* ------------------------------------------------- outcomes of one call
Raise(err, log) == [status |-> err, value |-> None, log |-> log]
Return(v, log) == [status |-> "ok", value |-> v, log |-> log]

\* One call into the engine: the function and its arguments.
Call(fn, a, b, c, out) == [fn |-> fn, a |-> a, b |-> b, c |-> c, out |-> out]

SetVal(s) == [k |-> "set", name |-> s]
IntVal(n) == [k |-> "int", n |-> n]
TextVal(s) == [k |-> "text", s |-> s]
ObjVal(i) == [k |-> "obj", id |-> i]

Reals == SetVal("Reals")

\* isinstance(expr, Abs): the top level of the tree is an application of Abs.
IsAbsApplication(t) == t.tree = "Abs(x - 1)"

ZeroToInfinity == SetVal("Interval(0, oo)")

\* sympy.symbols(names): a name becomes its symbol; anything that is
\* neither a string nor iterable (a Symbol) is a TypeError.
symbols(v) ==
  IF v.k = "str" THEN Return(Sym(v.name), <<>>) ELSE Raise("TypeError", <<>>)

\* Mutant: the result is built with the base class, Function(...).
ClassOf_base(f) == "Function"

\* self.__class__
ClassOf(f) == f.cls

\* ---------------------------------------------------------- Function
\* Function.tokens
tokens(f) == Return([k |-> "list", items |-> Split(f.expr_str)], <<>>)

\* Function.__str__
str(f) == Return(TextVal(StrOf(f.expr)), <<>>)

\* Function.output
output(f) == Return(f.expr, <<>>)

\* Function.number_of_variables
number_of_variables(f) == Return(IntVal(Len(f.vars)), <<>>)

\* Function.evaluater: the names bound; isReal is whether float() takes
\* the engine's number.
evaluater(f, bound, isReal) ==
  LET left == free_symbols(f.expr) \ bound
      log == <<Call("subs", f.expr, [k |-> "names", names |-> bound], None, None)>>
  IN IF left # {} THEN Return([k |-> "residual", free |-> left], log)
     ELSE IF isReal THEN Return([k |-> "float"], log \o <<Call("evalf", f.expr, None, None, None)>>)
     ELSE Return([k |-> "residual", free |-> {}], log \o <<Call("evalf", f.expr, None, None, None)>>)

\* Function.derivative, up to the engine's answer t: the status, the text
\* the new Function is built from, the engine calls.
derivative(f, var, t) ==
  IF var = None
  THEN IF Len(f.vars) # 1 THEN Raise("AmbiguousVariable", <<>>)
       ELSE Return(TextVal(StrOf(t)), <<Call("diff", f.expr, f.vars[1], None, t)>>)
  ELSE LET s == symbols(var)
       IN IF s.status # "ok" THEN s
          ELSE Return(TextVal(StrOf(t)), <<Call("diff", f.expr, s.value, None, t)>>)

\* Function.integral
integral(f, var, t) ==
  IF var = None
  THEN IF Len(f.vars) # 1 THEN Raise("AmbiguousVariable", <<>>)
       ELSE Return(TextVal(StrOf(t)), <<Call("integrate", f.expr, f.vars[1], None, t)>>)
  ELSE LET s == symbols(var)
       IN IF s.status # "ok" THEN s
          ELSE Return(TextVal(StrOf(t)), <<Call("integrate", f.expr, s.value, None, t)>>)

\* Function.domain; cd is the engine's answer.
Function_domain(f, var, cd) ==
  IF var = None
  THEN IF Len(f.vars) # 1 THEN Raise("AmbiguousVariable", <<>>)
       ELSE Return(cd, <<Call("continuous_domain", f.expr, f.vars[1], Reals, cd)>>)
  ELSE LET s == symbols(var)
       IN IF s.status # "ok" THEN s
          ELSE Return(cd, <<Call("continuous_domain", f.expr, s.value, Reals, cd)>>)

\* Mutant: the count of the variables is not looked at.
Polynomial_domain_unguarded(f, var) == Return(Reals, <<>>)

\* PolynomialFunction.domain
Polynomial_domain(f, var) ==
  IF var = None /\ Len(f.vars) # 1 THEN Raise("AmbiguousVariable", <<>>)
  ELSE Return(Reals, <<>>)

\* self.domain(var): the class's override, or through super() the
\* generic one.
domain(f, var, cd) ==
  IF f.cls = "PolynomialFunction" THEN Polynomial_domain(f, var)
  ELSE Function_domain(f, var, cd)

\* function_range(expr, var, domain): the engine's answer fr, or it raises.
function_range(e, v, d, fr, log) ==
  LET log2 == log \o <<Call("function_range", e, v, d, fr)>>
  IN IF fr = Raises THEN Raise("RangeUnavailable", log2)
     ELSE Return(fr, log2)

\* Function.range, after the variable is resolved to v.
Function_range_on(f, v, dom, cd, fr) ==
  IF dom = None
  THEN LET d == domain(f, v, cd)
       IN IF d.status # "ok" THEN d
          ELSE function_range(f.expr, v, d.value, fr, d.log)
  ELSE function_range(f.expr, v, dom, fr, <<>>)

\* Function.range
Function_range(f, var, dom, cd, fr) ==
  IF var = None
  THEN IF Len(f.vars) # 1 THEN Raise("AmbiguousVariable", <<>>)
       ELSE Function_range_on(f, f.vars[1], dom, cd, fr)
  ELSE LET s == symbols(var)
       IN IF s.status # "ok" THEN s
          ELSE Function_range_on(f, s.value, dom, cd, fr)

\* Mutant: the domain given is dropped for the reals.
Polynomial_range_domain_forced(dom) == Reals

\* The domain PolynomialFunction.range hands to function_range.
Polynomial_range_domain(dom) == IF dom = None THEN Reals ELSE dom

\* PolynomialFunction.range
Polynomial_range(f, var, dom, fr) ==
  IF var = None
  THEN IF Len(f.vars) # 1 THEN Raise("AmbiguousVariable", <<>>)
       ELSE function_range(f.expr, f.vars[1], Polynomial_range_domain(dom), fr, <<>>)
  ELSE LET s == symbols(var)
       IN IF s.status # "ok" THEN s
          ELSE function_range(f.expr, s.value, Polynomial_range_domain(dom), fr, <<>>)

\* Mutant: [0, oo) at once for an application of Abs.
Absolute_range_shortcut(f, var, dom, cd, fr) ==
  IF IsAbsApplication(f.expr) THEN Return(ZeroToInfinity, <<>>)
  ELSE Function_range(f, var, dom, cd, fr)

\* AbsoluteFunction.range: super().range(var, domain)
Absolute_range(f, var, dom, cd, fr) == Function_range(f, var, dom, cd, fr)

\* self.range(var, domain): the class's override; those of the other
\* classes are super().range(var, domain).
range(f, var, dom, cd, fr) ==
  IF f.cls = "PolynomialFunction" THEN Polynomial_range(f, var, dom, fr)
  ELSE IF f.cls = "AbsoluteFunction" THEN Absolute_range(f, var, dom, cd, fr)
  ELSE Function_range(f, var, dom, cd, fr)

\* other.expr of a right operand: a Function of the heap has one, a
\* plain number has none.
ExprOf(arg) ==
  IF arg.k = "obj" THEN Return(heap[arg.id].expr, <<>>)
  ELSE Raise("AttributeError", <<>>)

\* Function.__add__, up to the engine's answer t
Function_add(f, arg, t) ==
  LET o == ExprOf(arg)
  IN IF o.status # "ok" THEN o
     ELSE Return(TextVal(StrOf(t)), <<Call("add", f.expr, o.value, None, t)>>)

\* Mutant: the operands the other way round.
Function_sub_swapped(f, arg, t) ==
  LET o == ExprOf(arg)
  IN IF o.status # "ok" THEN o
     ELSE Return(TextVal(StrOf(t)), <<Call("sub", o.value, f.expr, None, t)>>)

\* Function.__sub__
Function_sub(f, arg, t) ==
  LET o == ExprOf(arg)
  IN IF o.status # "ok" THEN o
     ELSE Return(TextVal(StrOf(t)), <<Call("sub", f.expr, o.value, None, t)>>)

\* Function.__mul__
Function_mul(f, arg, t) ==
  LET o == ExprOf(arg)
  IN IF o.status # "ok" THEN o
     ELSE Return(TextVal(StrOf(t)), <<Call("mul", f.expr, o.value, None, t)>>)

\* Function.__truediv__
Function_truediv(f, arg, t) ==
  LET o == ExprOf(arg)
  IN IF o.status # "ok" THEN o
     ELSE Return(TextVal(StrOf(t)), <<Call("truediv", f.expr, o.value, None, t)>>)

\* Function.__pow__: self.expr ** power takes the argument as it is; the
\* engine cannot sympify a Function object, and Function has no __rpow__.
Function_pow(f, arg, t) ==
  IF arg.k = "obj" THEN Raise("TypeError", <<>>)
  ELSE Return(TextVal(StrOf(t)), <<Call("pow", f.expr, arg, None, t)>>)

\* ------------------------------------------------- PolynomialFunction
\* Mutant: the polynomial is asked for before the variables are counted.
degree_poly_first(f) ==
  LET poly == as_poly(f.expr)
      log == <<Call("as_poly", f.expr, None, None, poly)>>
  IN IF poly = Null THEN Raise("NotAPolynomial", log)
     ELSE IF Len(f.vars) # 1 THEN Raise("AmbiguousVariable", <<>>)
     ELSE Return(IntVal(poly.deg), log)

\* PolynomialFunction.degree
degree(f) ==
  IF Len(f.vars) # 1 THEN Raise("AmbiguousVariable", <<>>)
  ELSE LET poly == as_poly(f.expr)
           log == <<Call("as_poly", f.expr, None, None, poly)>>
       IN IF poly = Null THEN Raise("NotAPolynomial", log)
          ELSE Return(IntVal(poly.deg), log)

\* ------------------------------------------------------- TrigFunction
\* TrigFunction.simplify_trig
simplify_trig(f, t) ==
  Return(TextVal(StrOf(t)), <<Call("simplify", f.expr, None, None, t)>>)

\* TrigFunction.to_polynomial_if_possible; t1 is the simplified tree.
to_polynomial_if_possible(f, t1, t) ==
  Return(TextVal(StrOf(t)),
         <<Call("simplify", f.expr, None, None, t1), Call("rewrite", t1, None, None, t)>>)

\* --------------------------------------------------- RationalFunction
\* RationalFunction.numerator
numerator(f) ==
  LET nd == as_numer_denom(f.expr)
  IN Return(nd[1], <<Call("as_numer_denom", f.expr, None, None, nd[1])>>)

\* RationalFunction.denominator
denominator(f) ==
  LET nd == as_numer_denom(f.expr)
  IN Return(nd[2], <<Call("as_numer_denom", f.expr, None, None, nd[2])>>)

\* RationalFunction.vertical_asymptotes
vertical_asymptotes(f) ==
  LET den == denominator(f)
  IN Return([k |-> "solutions", den |-> StrOf(den.value)], den.log)

\* RationalFunction.horizontal_asymptote
horizontal_asymptote(f) ==
  LET nd == as_numer_denom(f.expr)
      p_num == as_poly(nd[1])
      p_den == as_poly(nd[2])
      log == <<Call("as_numer_denom", f.expr, None, None, nd[1]),
               Call("as_poly", nd[1], None, None, p_num),
               Call("as_poly", nd[2], None, None, p_den)>>
  IN IF p_num = Null \/ p_den = Null
     THEN Return([k |-> "not rational"], log)
     ELSE IF p_num.deg < p_den.deg THEN Return([k |-> "y = 0"], log)
     ELSE IF p_num.deg = p_den.deg
     THEN Return([k |-> "y = LC/LC", num |-> p_num.LC, den |-> p_den.LC], log)
     ELSE Return([k |-> "no horizontal asymptote"], log)

\* ------------------------------------------------------------ the inputs
VarArgs == {None, Str("x"), Str("w"), Sym("x")}
DomArgs == {None, Reals, SetVal("Interval(2, 3)")}
Operands == {ObjVal(j) : j \in 1..Len(heap)} \cup {IntVal(2)}
Bindings == {{}, {"x"}, {"w", "x", "z"}}

NoArgs == [var |-> None, dom |-> None, other |-> None]
VarArg(v) == [var |-> v, dom |-> None, other |-> None]
RangeArgs(v, d) == [var |-> v, dom |-> d, other |-> None]
OtherArg(o) == [var |-> None, dom |-> None, other |-> o]

\* A call that returns a value or raises: the heap is as it was.
Finish(op, i, args, r) ==
  /\ ret' = [op |-> op, self |-> i, args |-> args, status |-> r.status,
             value |-> r.value, log |-> r.log]
  /\ UNCHANGED heap

\* Mutant: the receiver is re-initialised in place and returned.
Build_in_place(op, i, args, cls, r) ==
  IF r.status = "ok"
  THEN /\ Len(heap) < MaxObjs
       /\ heap' = [heap EXCEPT ![i] = NewFunction(cls, r.value.s)]
       /\ ret' = [op |-> op, self |-> i, args |-> args, status |-> "ok",
                  value |-> ObjVal(i), log |-> r.log]
  ELSE Finish(op, i, args, r)

\* A call that ends in cls(text): the constructor runs and its object is
\* returned.
Build(op, i, args, cls, r) ==
  IF r.status = "ok"
  THEN /\ Len(heap) < MaxObjs
       /\ heap' = Append(heap, NewFunction(cls, r.value.s))
       /\ ret' = [op |-> op, self |-> i, args |-> args, status |-> "ok",
                  value |-> ObjVal(Len(heap) + 1), log |-> r.log]
  ELSE Finish(op, i, args, r)

\* ------------------------------------------------------------ the actions
Tokens(i) == Finish("tokens", i, NoArgs, tokens(heap[i]))

ToStr(i) == Finish("__str__", i, NoArgs, str(heap[i]))

Output(i) == Finish("output", i, NoArgs, output(heap[i]))

NumberOfVariables(i) ==
  Finish("number_of_variables", i, NoArgs, number_of_variables(heap[i]))

Evaluater(i) ==
  \E b \in Bindings, isReal \in BOOLEAN :
    Finish("evaluater", i, OtherArg([k |-> "names", names |-> b]),
           evaluater(heap[i], b, isReal))

Derivative(i) ==
  \E v \in VarArgs, t \in EngineTrees :
    Build("derivative", i, VarArg(v), ClassOf(heap[i]), derivative(heap[i], v, t))

Integral(i) ==
  \E v \in VarArgs, t \in EngineTrees :
    Build("integral", i, VarArg(v), ClassOf(heap[i]), integral(heap[i], v, t))

DomainCall(i) ==
  \E v \in VarArgs, cd \in EngineDomains :
    Finish("domain", i, VarArg(v), domain(heap[i], v, cd))

RangeCall(i) ==
  \E v \in VarArgs, d \in DomArgs, cd \in EngineDomains, fr \in EngineRanges \cup {Raises} :
    Finish("range", i, RangeArgs(v, d), range(heap[i], v, d, cd, fr))

\* Function.Domain
DomainAlias(i) ==
  \E v \in VarArgs, cd \in EngineDomains :
    Finish("Domain", i, VarArg(v), domain(heap[i], v, cd))

\* Function.Range
RangeAlias(i) ==
  \E v \in VarArgs, d \in DomArgs, cd \in EngineDomains, fr \in EngineRanges \cup {Raises} :
    Finish("Range", i, RangeArgs(v, d), range(heap[i], v, d, cd, fr))

Add(i) ==
  \E o \in Operands, t \in EngineTrees :
    Build("add", i, OtherArg(o), ClassOf(heap[i]), Function_add(heap[i], o, t))

Sub(i) ==
  \E o \in Operands, t \in EngineTrees :
    Build("sub", i, OtherArg(o), ClassOf(heap[i]), Function_sub(heap[i], o, t))

Mul(i) ==
  \E o \in Operands, t \in EngineTrees :
    Build("mul", i, OtherArg(o), ClassOf(heap[i]), Function_mul(heap[i], o, t))

TrueDiv(i) ==
  \E o \in Operands, t \in EngineTrees :
    Build("truediv", i, OtherArg(o), ClassOf(heap[i]), Function_truediv(heap[i], o, t))

Pow(i) ==
  \E o \in Operands, t \in EngineTrees :
    Build("pow", i, OtherArg(o), ClassOf(heap[i]), Function_pow(heap[i], o, t))

Degree(i) ==
  /\ heap[i].cls = "PolynomialFunction"
  /\ Finish("degree", i, NoArgs, degree(heap[i]))

SimplifyTrig(i) ==
  /\ heap[i].cls = "TrigFunction"
  /\ \E t \in EngineTrees :
       Build("simplify_trig", i, NoArgs, "TrigFunction", simplify_trig(heap[i], t))

ToPolynomialIfPossible(i) ==
  /\ heap[i].cls = "TrigFunction"
  /\ \E t1 \in EngineTrees, t \in EngineTrees :
       Build("to_polynomial_if_possible", i, NoArgs, "TrigFunction",
             to_polynomial_if_possible(heap[i], t1, t))

Numerator(i) ==
  /\ heap[i].cls = "RationalFunction"
  /\ Finish("numerator", i, NoArgs, numerator(heap[i]))

Denominator(i) ==
  /\ heap[i].cls = "RationalFunction"
  /\ Finish("denominator", i, NoArgs, denominator(heap[i]))

VerticalAsymptotes(i) ==
  /\ heap[i].cls = "RationalFunction"
  /\ Finish("vertical_asymptotes", i, NoArgs, vertical_asymptotes(heap[i]))

HorizontalAsymptote(i) ==
  /\ heap[i].cls = "RationalFunction"
  /\ Finish("horizontal_asymptote", i, NoArgs, horizontal_asymptote(heap[i]))

\* No call is under way: the caller holds no outcome.
Idle ==
  [op |-> "none", self |-> 0, args |-> NoArgs, status |-> "ok",
   value |-> None, log |-> <<>>]

\* The caller has read the outcome of its call and goes on (the program is
\* single-threaded and synchronous: one call at a time).
Resume ==
  /\ ret # Idle
  /\ ret' = Idle
  /\ UNCHANGED heap

\* ---------------------------------------------------- the specification
\* One or two Functions have been constructed from text and nothing
\* called yet.
Init ==
  /\ \E l \in Literals :
       \/ heap = <<NewFunction(l[1], l[2])>>
       \/ \E r \in RightOperands :
            heap = <<NewFunction(l[1], l[2]), NewFunction(r[1], r[2])>>
  /\ ret = Idle

CallOn(i) ==
  \/ Tokens(i)
  \/ ToStr(i)
  \/ Output(i)
  \/ NumberOfVariables(i)
  \/ Evaluater(i)
  \/ Derivative(i)
  \/ Integral(i)
  \/ DomainCall(i)
  \/ RangeCall(i)
  \/ DomainAlias(i)
  \/ RangeAlias(i)
  \/ Add(i)
  \/ Sub(i)
  \/ Mul(i)
  \/ TrueDiv(i)
  \/ Pow(i)
  \/ Degree(i)
  \/ SimplifyTrig(i)
  \/ ToPolynomialIfPossible(i)
  \/ Numerator(i)
  \/ Denominator(i)
  \/ VerticalAsymptotes(i)
  \/ HorizontalAsymptote(i)

Next ==
  \/ ret = Idle /\ \E i \in 1..Len(heap) : CallOn(i)
  \/ Resume

Spec == Init /\ [][Next]_vars

TypeOK ==
  /\ Len(heap) \in 1..MaxObjs
  /\ \A i \in 1..Len(heap) : heap[i].cls \in Classes
  /\ ret.self \in 0..Len(heap)

\* ------------------------------------------------------------- the claims
Self == heap[ret.self]
Other == heap[ret.args.other.id]
Made == heap[ret.value.id]
LastCall == ret.log[Len(ret.log)]

RangeOps == {"range", "Range"}
DomainOps == {"domain", "Domain"}
BinaryOps == {"add", "sub", "mul", "truediv", "pow"}
PreservingOps == {"derivative", "integral"} \cup BinaryOps
VariableOps == {"derivative", "integral"} \cup DomainOps \cup RangeOps
EngineSolvers == {"diff", "integrate", "continuous_domain", "function_range"}

\* C1: derivative, integral and the five arithmetic operators, when they
\* return, return a Function of exactly the receiver's class, whatever the
\* class of the right operand.
Thm_C1 ==
  (ret.op \in PreservingOps /\ ret.status = "ok")
    => /\ ret.value.k = "obj"
       /\ Made.cls = Self.cls

\* C1 witness: an arithmetic operator has returned and the right operand
\* is of another class than the receiver.
Wit_C1 ==
  /\ ret.op \in BinaryOps
  /\ ret.status = "ok"
  /\ ret.args.other.k = "obj"
  /\ Other.cls # Self.cls
  /\ Made.cls = Self.cls

\* C2: with no variable given, domain, range, derivative and integral fail
\* with AmbiguousVariable exactly when the receiver does not have exactly
\* one free variable; with exactly one, every engine call they make is on
\* that variable; with a variable given they never fail with
\* AmbiguousVariable.
Thm_C2 ==
  ret.op \in VariableOps
    => /\ ret.args.var = None
            => (ret.status = "AmbiguousVariable" <=> Len(Self.vars) # 1)
       /\ (ret.args.var = None /\ Len(Self.vars) = 1)
            => \A n \in 1..Len(ret.log) :
                 ret.log[n].fn \in EngineSolvers /\ ret.log[n].b = Self.vars[1]
       /\ ret.args.var # None => ret.status # "AmbiguousVariable"

\* C2 witness: a call with no variable on a Function with no free variable
\* has failed with AmbiguousVariable.
Wit_C2 ==
  /\ ret.op \in VariableOps
  /\ ret.args.var = None
  /\ Len(Self.vars) = 0
  /\ ret.status = "AmbiguousVariable"

\* C3 (as claimed): when range has resolved its variable and the engine's
\* function_range fails, range returns the result "not computable" and
\* propagates nothing.
CE_C3 ==
  (ret.op \in RangeOps /\ ret.log # <<>> /\ LastCall.fn = "function_range"
     /\ LastCall.out = Raises)
    => /\ ret.status = "ok"
       /\ ret.value = [k |-> "not computable"]

\* C4 (as claimed): range on an AbsoluteFunction whose tree is an
\* application of Abs, with a variable given, returns [0, oo) and calls
\* neither continuous_domain nor function_range.
CE_C4 ==
  (ret.op \in RangeOps /\ Self.cls = "AbsoluteFunction"
     /\ IsAbsApplication(Self.expr) /\ ret.args.var = Str("x"))
    => /\ ret.status = "ok"
       /\ ret.value = ZeroToInfinity
       /\ ret.log = <<>>

\* C4 (amended): AbsoluteFunction.range has no shortcut: whenever it
\* returns, application of Abs or not, its result is the answer of the
\* engine's function_range, called last, on the receiver's expression.
Thm_C4 ==
  (ret.op \in RangeOps /\ Self.cls = "AbsoluteFunction" /\ ret.status = "ok")
    => /\ ret.log # <<>>
       /\ LastCall.fn = "function_range"
       /\ LastCall.a = Self.expr
       /\ ret.value = LastCall.out

\* C4 witness: range on AbsoluteFunction("Abs(x - 1)") has returned
\* something else than [0, oo), the engine's answer over the given domain.
Wit_C4 ==
  /\ ret.op \in RangeOps
  /\ Self.cls = "AbsoluteFunction"
  /\ IsAbsApplication(Self.expr)
  /\ ret.status = "ok"
  /\ ret.value # ZeroToInfinity
  /\ LastCall.fn = "function_range"

\* C5 (as claimed): horizontal_asymptote never raises and returns "not a
\* rational polynomial function" exactly when a conversion to a polynomial
\* fails, else "y = 0", "y = LC/LC" or none by the degrees; and a constant
\* numerator over a denominator of degree at least 1 is "y = 0".
CE_C5 ==
  ret.op = "horizontal_asymptote"
    => LET nd == as_numer_denom(Self.expr)
           p_num == as_poly(nd[1])
           p_den == as_poly(nd[2])
       IN /\ ret.status = "ok"
          /\ ret.value.k = "not rational" <=> (p_num = Null \/ p_den = Null)
          /\ (p_num # Null /\ p_den # Null)
               => /\ ret.value.k = "y = 0" <=> p_num.deg < p_den.deg
                  /\ ret.value.k = "y = LC/LC" <=> p_num.deg = p_den.deg
                  /\ ret.value.k = "no horizontal asymptote" <=> p_num.deg > p_den.deg
          /\ (free_symbols(nd[1]) = {} /\ p_den # Null /\ p_den.deg >= 1)
               => ret.value.k = "y = 0"

\* C6: no call changes a field of an object that exists, whether it
\* returns or raises, and a Function a call returns is a new object.
Thm_C6 ==
  [][/\ Len(heap') >= Len(heap)
     /\ \A i \in 1..Len(heap) : heap'[i] = heap[i]
     /\ (ret'.value.k = "obj") => ret'.value.id \notin 1..Len(heap)]_vars

\* C6 witness: an operator has returned a Function built from the receiver
\* and a right operand.
Wit_C6 ==
  /\ ret.op \in BinaryOps
  /\ ret.status = "ok"
  /\ ret.args.other.k = "obj"
  /\ ret.value.id \notin {ret.self, ret.args.other.id}

\* C7 (as claimed): each of the five operators, given two Functions,
\* returns the Function of the text of the engine's combination of the
\* two expressions.
CE_C7 ==
  (ret.op \in BinaryOps /\ ret.args.other.k = "obj")
    => /\ ret.status = "ok"
       /\ ret.log = <<Call(ret.op, Self.expr, Other.expr, None, LastCall.out)>>
       /\ Made.expr_str = StrOf(LastCall.out)

\* C7 (amended): add, subtract, multiply and divide, given two Functions,
\* return the Function of the text of the engine's combination of the two
\* expressions; power hands its right operand to the engine as it is, so
\* it fails with a TypeError on a Function and returns on a number.
Thm_C7 ==
  ret.op \in BinaryOps
    => /\ (ret.op # "pow" /\ ret.args.other.k = "obj")
            => /\ ret.status = "ok"
               /\ ret.log = <<Call(ret.op, Self.expr, Other.expr, None, LastCall.out)>>
               /\ Made.expr_str = StrOf(LastCall.out)
               /\ Made.expr = parse_expr(Made.expr_str)
       /\ (ret.op = "pow" /\ ret.args.other.k = "obj")
            => ret.status = "TypeError" /\ ret.log = <<>>
       /\ (ret.op = "pow" /\ ret.args.other.k = "int")
            => /\ ret.status = "ok"
               /\ ret.log = <<Call("pow", Self.expr, ret.args.other, None, LastCall.out)>>
               /\ Made.expr_str = StrOf(LastCall.out)

\* C7 witness: subtract has returned on two Functions of different
\* expressions.
Wit_C7 ==
  /\ ret.op = "sub"
  /\ ret.status = "ok"
  /\ ret.args.other.k = "obj"
  /\ Other.expr # Self.expr
  /\ LastCall.a = Self.expr
  /\ LastCall.b = Other.expr

\* C8: degree fails with AmbiguousVariable when the free variables are not
\* exactly one, and then asks the engine nothing; else fails with
\* NotAPolynomial when as_poly gives None; else returns the degree of the
\* polynomial.
Thm_C8 ==
  ret.op = "degree"
    => /\ Len(Self.vars) # 1
            => ret.status = "AmbiguousVariable" /\ ret.log = <<>>
       /\ (Len(Self.vars) = 1 /\ as_poly(Self.expr) = Null)
            => ret.status = "NotAPolynomial"
       /\ (Len(Self.vars) = 1 /\ as_poly(Self.expr) # Null)
            => ret.status = "ok" /\ ret.value = IntVal(as_poly(Self.expr).deg)

\* C8 witness: degree on a constant, which is no polynomial for the engine,
\* has failed with AmbiguousVariable.
Wit_C8 ==
  /\ ret.op = "degree"
  /\ Len(Self.vars) = 0
  /\ as_poly(Self.expr) = Null
  /\ ret.status = "AmbiguousVariable"

\* C9 (as claimed): PolynomialFunction.domain returns the reals without
\* the engine, and PolynomialFunction.range never calls continuous_domain
\* and hands function_range the reals in every call.
CE_C9 ==
  (ret.op \in DomainOps \cup RangeOps /\ Self.cls = "PolynomialFunction")
    => /\ (ret.op \in DomainOps /\ ret.status = "ok")
            => ret.value = Reals /\ ret.log = <<>>
       /\ ret.op \in RangeOps
            => \A n \in 1..Len(ret.log) :
                 /\ ret.log[n].fn = "function_range"
                 /\ ret.log[n].c = Reals

\* C9 (amended): PolynomialFunction.domain returns the reals without the
\* engine; PolynomialFunction.range never calls continuous_domain and
\* hands function_range the reals when no domain is given, and the domain
\* given otherwise.
Thm_C9 ==
  (ret.op \in DomainOps \cup RangeOps /\ Self.cls = "PolynomialFunction")
    => /\ (ret.op \in DomainOps /\ ret.status = "ok")
            => ret.value = Reals /\ ret.log = <<>>
       /\ ret.op \in RangeOps
            => \A n \in 1..Len(ret.log) :
                 /\ ret.log[n].fn = "function_range"
                 /\ ret.args.dom = None => ret.log[n].c = Reals
                 /\ ret.args.dom # None => ret.log[n].c = ret.args.dom

\* C9 witness: PolynomialFunction.range with a variable and a domain
\* other than the reals has returned.
Wit_C9 ==
  /\ ret.op \in RangeOps
  /\ Self.cls = "PolynomialFunction"
  /\ ret.args.var = Str("x")
  /\ ret.args.dom \notin {None, Reals}
  /\ ret.status = "ok"

\* C10 (as claimed): a call that fails with AmbiguousVariable has asked the
\* engine nothing and built nothing; and the generic range with no domain
\* given, once its variable is resolved, calls continuous_domain and then
\* function_range on that variable and on the domain continuous_domain
\* returned.
CE_C10 ==
  /\ ret.status = "AmbiguousVariable" => ret.log = <<>> /\ ret.value = None
  /\ (ret.op \in RangeOps /\ Self.cls # "PolynomialFunction"
        /\ ret.args.dom = None
        /\ \/ ret.args.var = None /\ Len(Self.vars) = 1
           \/ ret.args.var.k = "str")
       => /\ Len(ret.log) = 2
          /\ ret.log[1].fn = "continuous_domain"
          /\ ret.log[2].fn = "function_range"
          /\ ret.log[2].b = ret.log[1].b
          /\ ret.log[2].c = ret.log[1].out

====
